---- MODULE Spec2Model ----
(***************************************************************************)
(* Filigree integration-options component.                                 *)
(*                                                                         *)
(* The model covers the classes of the TypeScript implementation, the      *)
(* script main.ts and the browser objects they act on:                     *)
(*   - FiligreeComponent: config, state, the container's class list, the   *)
(*     grid element's children, the title text and the listeners it        *)
(*     registers on window and on the container;                           *)
(*   - FiligreeState: the state$ and config$ subjects and the events it    *)
(*     dispatches on document;                                             *)
(*   - FiligreeAnalytics: the gtag call and the fetch beacon;              *)
(*   - several FiligreeComponent objects on a page with two sections,      *)
(*     their card arrays held by reference;                                *)
(*   - main.ts: the cards of its page, their click listeners, their        *)
(*     inline opacity and the pending timers.                              *)
(* An optional JavaScript value (a property that may be undefined) is a    *)
(* set with at most one element: {} is undefined, {v} is the value v.      *)
(***************************************************************************)
EXTENDS Integers, Sequences, FiniteSets, TLC

VARIABLES
    innerWidth,          \* window.innerWidth
    config,              \* FiligreeComponent.config
    state,               \* FiligreeComponent.state
    classList,           \* container.classList
    gridChildren,        \* gridElement.children
    titleText,           \* textContent of .dungeon-integration-title
    windowListeners,     \* listeners registered on window for 'resize'
    containerListeners,  \* listeners registered on the container for 'click'
    stateSubject,        \* FiligreeState.state$ (current value)
    configSubject,       \* FiligreeState.config$ (current value)
    dispatched,          \* events dispatched on document by the last operation
    lastOp,              \* the last operation and what it met (history)
    page,                \* which of the nodes the component looks up exist
    thrown,              \* the error the last operation threw to its caller
    arrays,              \* the card arrays on the heap, by reference
    instances,           \* the FiligreeComponent objects of a two-section page
    sections,            \* the .dungeon-integration-section elements of that page
    posted,              \* what the last FiligreeAnalytics call handed to its sinks
    dungeonCards,        \* main.ts: the .dungeon-card elements of its page
    titleElement,        \* main.ts: the .dungeon-integration-title text, if any
    timers,              \* main.ts: the pending setTimeout callbacks, in order
    loaded               \* main.ts: DOMContentLoaded has been dispatched

vars == <<innerWidth, config, state, classList, gridChildren, titleText,
          windowListeners, containerListeners,
          stateSubject, configSubject, dispatched, lastOp, page, thrown,
          arrays, instances, sections, posted,
          dungeonCards, titleElement, timers, loaded>>

componentVars == <<innerWidth, config, state, classList, gridChildren, titleText,
                   windowListeners, containerListeners>>

storeVars == <<stateSubject, configSubject>>

instanceVars == <<arrays, instances, sections>>

mainVars == <<dungeonCards, titleElement, timers, loaded>>

\* the variables of the parts of the program that stand beside the component
\* and the state store
otherVars == <<instanceVars, posted, mainVars>>

----------------------------------------------------------------------------
(* Bounds of the model *)

\* longest card list an addCard may produce
MaxCards == 7

\* largest card index handed to selectCard
MaxSelect == 2

----------------------------------------------------------------------------
(* Optional values and JavaScript's falsy-or-default *)

None == {}

Some(v) == {v}

The(o) == CHOOSE v \in o : TRUE

\* a || d for a number: undefined and 0 are falsy
OrNumber(o, d) == IF o = None \/ o = Some(0) THEN d ELSE The(o)

\* a || d for a string: undefined and '' are falsy
OrString(o, d) == IF o = None \/ o = Some("") THEN d ELSE The(o)

\* a || d for an object reference: only undefined is falsy
OrObject(o, d) == IF o = None THEN d ELSE The(o)

\* w < b and w >= b where b may be undefined: a comparison with undefined is false
Lt(w, o) == \E b \in o : w < b

Ge(w, o) == \E b \in o : w >= b

----------------------------------------------------------------------------
(* Defaults of the constructor *)

DefaultTitle == "Multiple options for easy integration"

DefaultMobile == 768

DefaultTablet == 900

DefaultDesktop == 1024

DefaultAlt == "Integration preview"

Card(id, type, title, altText, link, column, row) ==
    [id |-> id, type |-> type, title |-> title, altText |-> altText,
     link |-> link, gridPosition |-> [column |-> column, row |-> row]]

\* the one default card the source spells out
FirstDefaultCard ==
    Card(1, "text", Some("Pre-built plugins"), None, Some("#"), 1, 1)

\* the five default cards the source elides ("// ... other cards"): the 2x3
\* pattern text/image, image/text, text/image, six cards in all
OtherDefaultCards ==
    << Card(2, "image", None, Some("Preview 2"), None, 2, 1),
       Card(3, "image", None, Some("Preview 3"), None, 1, 2),
       Card(4, "text", Some("Card 4"), None, None, 2, 2),
       Card(5, "text", Some("Card 5"), None, None, 1, 3),
       Card(6, "image", None, Some("Preview 6"), None, 2, 3) >>

getDefaultCards == <<FirstDefaultCard>> \o OtherDefaultCards

----------------------------------------------------------------------------
(* Inputs: what a caller or the browser may hand to the program *)

\* viewport widths: one below 768, one in [768, 900), one in [900, 1024),
\* one above 1024
Widths == {500, 800, 950, 1200}

Breakpoints(m, t, d) == [mobile |-> m, tablet |-> t, desktop |-> d]

\* config.breakpoints as a caller may pass it: omitted, complete but not in
\* increasing order, and with fields left out
BreakpointInputs ==
    { None,
      Some(Breakpoints(Some(1000), Some(600), Some(900))),
      Some(Breakpoints(Some(600), None, None)) }

TitleInputs == { None, Some("Custom Integration Options") }

CustomPlugin == Card(1, "text", Some("Custom Plugin"), None, None, 1, 1)

NewIntegration == Card(7, "text", Some("New Integration"), None, None, 1, 4)

PreviewImage == Card(2, "image", None, Some("Preview"), None, 2, 1)

CardsInputs == { None, Some(<< >>), Some(<<CustomPlugin, PreviewImage>>) }

\* Partial<FiligreeConfig>: every key may be left out
ConfigInputs ==
    [title : TitleInputs, cards : CardsInputs, breakpoints : BreakpointInputs]

\* cards handed to addCard (a second addCard of it repeats an id)
AddCardInputs == { NewIntegration }

\* ids handed to removeCard: the first default card, an added card, an id no
\* card ever has
RemoveCardInputs == { 1, 7, 99 }

----------------------------------------------------------------------------
(* FiligreeComponent *)

\* the state object built in the constructor and in handleResize; the object
\* literal names the three flags only, so activeCard is undefined in it
TierFlags(width, breakpoints) ==
    [isMobile |-> Lt(width, breakpoints.mobile),
     isTablet |-> Lt(width, breakpoints.tablet),
     isDesktop |-> Ge(width, breakpoints.tablet),
     activeCard |-> None]

\* config.breakpoints?.<field> of the constructor's argument
InputBreakpoint(cfg, field) ==
    IF cfg.breakpoints = None THEN None ELSE The(cfg.breakpoints)[field]

\* this.config as the constructor merges it from the partial config
MergeDefaults(cfg) ==
    [title |-> OrString(cfg.title, DefaultTitle),
     cards |-> OrObject(cfg.cards, getDefaultCards),
     breakpoints |->
        Breakpoints(Some(OrNumber(InputBreakpoint(cfg, "mobile"), DefaultMobile)),
                    Some(OrNumber(InputBreakpoint(cfg, "tablet"), DefaultTablet)),
                    Some(OrNumber(InputBreakpoint(cfg, "desktop"), DefaultDesktop)))]

\* { ...this.config, ...newConfig }: a key of newConfig replaces the whole value
SpreadConfig(old, newConfig) ==
    [title |-> OrObject(newConfig.title, old.title),
     cards |-> OrObject(newConfig.cards, old.cards),
     breakpoints |-> OrObject(newConfig.breakpoints, old.breakpoints)]

TypeClass(type) ==
    IF type = "text" THEN "dungeon-card-text" ELSE "dungeon-card-image"

createCardElement(card, st) ==
    [className |-> {"dungeon-card", TypeClass(card.type)},
     gridColumn |-> IF st.isDesktop THEN Some(card.gridPosition.column) ELSE None,
     gridRow |-> IF st.isDesktop THEN Some(card.gridPosition.row) ELSE None,
     order |-> None,
     heading |-> IF card.type = "text" THEN Some(OrString(card.title, "")) ELSE None,
     href |-> IF card.type = "text" THEN card.link ELSE None,
     alt |-> IF card.type = "image" THEN Some(OrString(card.altText, DefaultAlt))
             ELSE None]

\* a render that forgets to clear the grid before it appends
renderChildrenKeepingOld(old, cards, st) ==
    old \o [i \in 1..Len(cards) |-> createCardElement(cards[i], st)]

\* gridElement.innerHTML = '' followed by one appendChild per card
renderChildren(old, cards, st) ==
    [i \in 1..Len(cards) |-> createCardElement(cards[i], st)]

\* style.order = index.toString() on every .dungeon-card of the container
handleMobileLayout(children) ==
    [i \in 1..Len(children) |-> [children[i] EXCEPT !.order = Some(i - 1)]]

\* classList.toggle(token) without the force argument: flips the token
ToggleWithoutForce(classes, token, force) ==
    IF token \in classes THEN classes \ {token} ELSE classes \cup {token}

\* classList.toggle(token, force)
Toggle(classes, token, force) ==
    IF force THEN classes \cup {token} ELSE classes \ {token}

handleResponsiveClasses(classes, st) ==
    Toggle(Toggle(Toggle(classes, "is-mobile", st.isMobile),
                  "is-tablet", st.isTablet),
           "is-desktop", st.isDesktop)

handleResponsiveChildren(children, st) ==
    IF st.isMobile THEN handleMobileLayout(children) ELSE children

\* cards.splice(cards.findIndex(card => card.id === id), 1): with no such card
\* the index is -1 and splice takes out the last card
removeCardSplice(cards, id) ==
    LET found == {i \in 1..Len(cards) : cards[i].id = id}
        at == IF found = {} THEN Len(cards)
              ELSE CHOOSE i \in found : \A j \in found : i <= j
    IN  [i \in 1..(IF cards = << >> THEN 0 ELSE Len(cards) - 1) |->
            IF i < at THEN cards[i] ELSE cards[i + 1]]

\* cards.filter(card => card.id !== id)
removeCardFilter(cards, id) == SelectSeq(cards, LAMBDA card : card.id # id)

\* cards.unshift(card)
unshiftCard(cards, card) == <<card>> \o cards

\* cards.push(card)
pushCard(cards, card) == Append(cards, card)

\* [...this.config.cards]
getCards == config.cards

\* function objects: every evaluation of f.bind(this) or of an arrow function
\* expression yields a new object; the objects that are ever compared are told
\* apart by the method whose evaluation made them
FunctionObject(fn, site) == [fn |-> fn, site |-> site]

ResizeListener == FunctionObject("handleResize.bind", "setupEventListeners")

ClickListener == FunctionObject("arrow", "setupEventListeners")

HasCard(cards, id) == \E i \in 1..Len(cards) : cards[i].id = id

\* history: the operation, its numeric argument, what it met (hit), and for a
\* resize the state classes the container carried before it (was)
Op(op, n, hit, was) == [op |-> op, n |-> n, hit |-> hit, was |-> was]

StateClasses == {"is-mobile", "is-tablet", "is-desktop"}

\* the nodes document.querySelector('.dungeon-integration-section') and, inside
\* it, querySelector('.dungeon-integration-grid') find
Page(container, grid) == [container |-> container, grid |-> grid]

CompletePage == Page(TRUE, TRUE)

\* a page with the section and its grid, one with a section that has no grid,
\* one with no section
PageInputs == {CompletePage, Page(TRUE, FALSE), Page(FALSE, FALSE)}

\* the constructor returned, so that the caller holds the object
Built == page.container /\ page.grid

\* the title element's text as the page ships it, before any render
PageTitleText == ""

\* reading a property of null (the result of a querySelector that found nothing)
NullPropertyRead == "TypeError"

\* new FiligreeComponent(cfg) on the page pg with the viewport at width w: the
\* merged config, the state, the two lookups, then init(): setupEventListeners,
\* render, handleResponsive. With no section the second lookup reads a property
\* of null; with no grid render() does, after the listeners were registered.
Constructed(pg, cfg, w) ==
    LET merged == MergeDefaults(cfg)
        st == TierFlags(w, merged.breakpoints)
    IN  /\ page = pg
        /\ innerWidth = w
        /\ config = merged
        /\ state = st
        /\ windowListeners = IF pg.container THEN {ResizeListener} ELSE {}
        /\ containerListeners = IF pg.container THEN {ClickListener} ELSE {}
        /\ titleText = IF pg.container /\ pg.grid THEN merged.title ELSE PageTitleText
        /\ gridChildren =
              IF pg.container /\ pg.grid
              THEN handleResponsiveChildren(renderChildren(<< >>, merged.cards, st), st)
              ELSE << >>
        /\ classList =
              IF pg.container /\ pg.grid
              THEN handleResponsiveClasses({"dungeon-integration-section"}, st)
              ELSE IF pg.container THEN {"dungeon-integration-section"} ELSE {}
        /\ thrown = IF pg.container /\ pg.grid THEN None ELSE Some(NullPropertyRead)

\* the viewport takes width w and the browser dispatches 'resize' on window:
\* every registered listener runs (handleResize, then handleResponsive)
WindowResize(w) ==
    LET runs == ResizeListener \in windowListeners
        st == TierFlags(w, config.breakpoints)
    IN  /\ innerWidth' = w
        /\ IF runs
           THEN /\ state' = st
                /\ classList' = handleResponsiveClasses(classList, st)
                /\ gridChildren' = handleResponsiveChildren(gridChildren, st)
           ELSE UNCHANGED <<state, classList, gridChildren>>
        /\ thrown' = None
        /\ UNCHANGED <<page, otherVars>>
        /\ lastOp' = Op("resize", w, runs, classList \cap StateClasses)
        /\ dispatched' = << >>
        /\ UNCHANGED <<config, titleText, windowListeners, containerListeners,
                       storeVars>>

\* the global gtag when a handler runs: not defined, a function that returns,
\* a function that throws
GtagInputs == {"undefined", "returns", "throws"}

GtagError == "gtag error"

\* trackEvent: if (typeof gtag !== 'undefined') gtag(...), in no try block, then
\* console.log; the result is the error that leaves the method, if any
trackEvent(gtag) == IF gtag = "throws" THEN Some(GtagError) ELSE None

\* handleLinkClick: preventDefault, trackEvent, console.log; no try block
handleLinkClick(gtag) == trackEvent(gtag)

\* a click inside the container, on a card's link (onLink) or elsewhere; the
\* container's listener calls handleLinkClick for a link only
ContainerClick(onLink, gtag) ==
    /\ page.container
    /\ onLink => \E i \in 1..Len(gridChildren) : gridChildren[i].href # None
    /\ thrown' = IF ClickListener \in containerListeners /\ onLink
                  THEN handleLinkClick(gtag) ELSE None
    /\ UNCHANGED <<page, otherVars>>
    /\ lastOp' = Op("click", 0, ClickListener \in containerListeners /\ onLink, {})
    /\ dispatched' = << >>
    /\ UNCHANGED <<componentVars, storeVars>>

updateConfig(newConfig) ==
    LET merged == SpreadConfig(config, newConfig)
    IN  /\ Built
        /\ config' = merged
        /\ gridChildren' = renderChildren(gridChildren, merged.cards, state)
        /\ titleText' = merged.title
        /\ thrown' = None
        /\ UNCHANGED <<page, otherVars>>
        /\ lastOp' = Op("updateConfig", Len(merged.cards), newConfig.cards # None, {})
        /\ dispatched' = << >>
        /\ UNCHANGED <<innerWidth, state, classList, windowListeners,
                       containerListeners, storeVars>>

addCard(card) ==
    LET cards == pushCard(config.cards, card)
    IN  /\ Built
        /\ Len(config.cards) < MaxCards
        /\ config' = [config EXCEPT !.cards = cards]
        /\ gridChildren' = renderChildren(gridChildren, cards, state)
        /\ titleText' = config.title
        /\ thrown' = None
        /\ UNCHANGED <<page, otherVars>>
        /\ lastOp' = Op("addCard", card.id, HasCard(config.cards, card.id), {})
        /\ dispatched' = << >>
        /\ UNCHANGED <<innerWidth, state, classList, windowListeners,
                       containerListeners, storeVars>>

removeCard(id) ==
    LET cards == removeCardFilter(config.cards, id)
    IN  /\ Built
        /\ config' = [config EXCEPT !.cards = cards]
        /\ gridChildren' = renderChildren(gridChildren, cards, state)
        /\ titleText' = config.title
        /\ thrown' = None
        /\ UNCHANGED <<page, otherVars>>
        /\ lastOp' = Op("removeCard", id, HasCard(config.cards, id), {})
        /\ dispatched' = << >>
        /\ UNCHANGED <<innerWidth, state, classList, windowListeners,
                       containerListeners, storeVars>>

\* target.removeEventListener(type, listener): removes the registered listener
\* that is the very object passed, and nothing when there is none
removeEventListener(listeners, listener) == listeners \ {listener}

\* removeEventListener with the function objects the two bind calls of this
\* very call make
destroy ==
    /\ Built
    /\ windowListeners' =
          removeEventListener(windowListeners,
                              FunctionObject("handleResize.bind", "destroy"))
    /\ containerListeners' =
          removeEventListener(containerListeners,
                              FunctionObject("handleLinkClick.bind", "destroy"))
    /\ thrown' = None
    /\ UNCHANGED <<page, otherVars>>
    /\ lastOp' = Op("destroy", 0, lastOp.op = "destroy", {})
    /\ dispatched' = << >>
    /\ UNCHANGED <<innerWidth, config, state, classList, gridChildren,
                       titleText, storeVars>>

----------------------------------------------------------------------------
(* FiligreeState *)

\* the values the two BehaviorSubjects are created with
InitialState ==
    [isMobile |-> FALSE, isTablet |-> FALSE, isDesktop |-> TRUE, activeCard |-> None]

InitialConfig ==
    [title |-> "", cards |-> << >>,
     breakpoints |-> Breakpoints(Some(DefaultMobile), Some(DefaultTablet),
                                 Some(DefaultDesktop))]

\* Partial<ComponentState>: a key left out is None; activeCard, itself
\* optional, is Some(None) when the key is there with the value undefined
StateUpdate(isMobile, isTablet, isDesktop, activeCard) ==
    [isMobile |-> isMobile, isTablet |-> isTablet, isDesktop |-> isDesktop,
     activeCard |-> activeCard]

UpdateStateInputs ==
    { StateUpdate(Some(TRUE), Some(TRUE), Some(FALSE), None),
      StateUpdate(Some(FALSE), Some(FALSE), Some(TRUE), None),
      StateUpdate(None, None, None, Some(None)) }

StoreCardsInputs == { << >>, <<CustomPlugin, PreviewImage>> }

SelectCardInputs == (0 - 1)..MaxSelect

\* { ...updates }: the current value is not carried over, so a flag the update
\* leaves out is undefined (falsy)
SpreadUpdatesOnly(current, updates) ==
    [isMobile |-> OrObject(updates.isMobile, FALSE),
     isTablet |-> OrObject(updates.isTablet, FALSE),
     isDesktop |-> OrObject(updates.isDesktop, FALSE),
     activeCard |-> OrObject(updates.activeCard, None)]

\* { ...current, ...updates }
SpreadState(current, updates) ==
    [isMobile |-> OrObject(updates.isMobile, current.isMobile),
     isTablet |-> OrObject(updates.isTablet, current.isTablet),
     isDesktop |-> OrObject(updates.isDesktop, current.isDesktop),
     activeCard |-> OrObject(updates.activeCard, current.activeCard)]

\* new CustomEvent(`filigree:${eventName}`, { detail: data, bubbles: true })
emitEvent(eventName, data) ==
    [type |-> <<"filigree", eventName>>, detail |-> data, bubbles |-> TRUE]

updateState(updates) ==
    /\ stateSubject' = SpreadState(stateSubject, updates)
    /\ thrown' = None
    /\ UNCHANGED <<page, otherVars>>
    /\ lastOp' = Op("updateState", 0, updates.activeCard # None, {})
    /\ dispatched' = << >>
    /\ UNCHANGED <<componentVars, configSubject>>

\* FiligreeState.updateConfig({ cards })
storeUpdateConfig(cards) ==
    /\ configSubject' = [configSubject EXCEPT !.cards = cards]
    /\ thrown' = None
    /\ UNCHANGED <<page, otherVars>>
    /\ lastOp' = Op("storeUpdateConfig", Len(cards), TRUE, {})
    /\ dispatched' = << >>
    /\ UNCHANGED <<componentVars, stateSubject>>

InRange(i, cards) == 0 <= i /\ i < Len(cards)

selectCard(cardId) ==
    /\ stateSubject' =
          SpreadState(stateSubject, StateUpdate(None, None, None, Some(Some(cardId))))
    /\ dispatched' = <<emitEvent("card_selected", [cardId |-> cardId])>>
    /\ thrown' = None
    /\ UNCHANGED <<page, otherVars>>
    /\ lastOp' = Op("selectCard", cardId, InRange(cardId, configSubject.cards), {})
    /\ UNCHANGED <<componentVars, configSubject>>

----------------------------------------------------------------------------
(* Several FiligreeComponent objects on one page with two sections; the    *)
(* card arrays live on a heap, so that two holders of one array show.      *)

InstanceNames == {"a", "b"}

\* the page's .dungeon-integration-section elements, in document order
Sections == {1, 2}

\* a section as the page ships it: no cards in its grid
EmptySection ==
    [children |-> << >>, title |-> PageTitleText,
     classList |-> {"dungeon-integration-section"}]

\* document.querySelector(selector): the first matching element in document
\* order
querySelector(matching) == CHOOSE s \in matching : \A t \in matching : s <= t

\* references of arrays: the array literal a caller passes as config.cards, the
\* array a call of getDefaultCards, of filter or of [...cards] makes
CallerArray == <<"caller", "cards">>

DefaultArray(inst) == <<"getDefaultCards", inst>>

FilterArray(inst) == <<"filter", inst>>

SpreadArray == <<"getCards", "result">>

\* the heap with the array at ref put in place
Store(heap, ref, cards) == (ref :> cards) @@ heap

\* the arrays of the heap something still refers to: the caller's array, the
\* config.cards of every component, and those the caller holds besides
Reachable(heap, components, held) ==
    LET refs == {CallerArray} \cup held
                  \cup {components[inst].cards : inst \in DOMAIN components}
    IN  [ref \in refs \cap DOMAIN heap |-> heap[ref]]

\* render() of a component with this title, cards and state, on a section
renderSection(section, title, cards, st) ==
    [section EXCEPT !.children = renderChildren(section.children, cards, st),
                    !.title = title]

\* handleResponsive() on a section
handleResponsiveSection(section, st) ==
    [section EXCEPT !.children = handleResponsiveChildren(section.children, st),
                    !.classList = handleResponsiveClasses(section.classList, st)]

\* ids handed to removeCard on the two-section page: one the caller's array
\* and the default cards hold
InstanceRemoveInputs == {1}

\* history of an operation on one of the components
InstanceOp(op, inst, n) ==
    [op |-> op, n |-> n, hit |-> TRUE, was |-> {}, inst |-> inst]

\* new FiligreeComponent({ cards }) with the caller's array (share), or
\* new FiligreeComponent() which takes a new array from getDefaultCards; the
\* container is looked up by the class selector alone
newFiligreeComponent(inst, share) ==
    LET ref == IF share THEN CallerArray ELSE DefaultArray(inst)
        heap == IF share THEN arrays ELSE Store(arrays, ref, getDefaultCards)
        merged == MergeDefaults([title |-> None, cards |-> Some(heap[ref]),
                                 breakpoints |-> None])
        st == TierFlags(innerWidth, merged.breakpoints)
        found == querySelector(Sections)
    IN  /\ inst \notin DOMAIN instances
        /\ instances' =
              (inst :> [cards |-> ref, title |-> merged.title, state |-> st,
                        container |-> found]) @@ instances
        /\ arrays' = Reachable(heap, instances', {})
        /\ sections' =
              [sections EXCEPT ![found] =
                  handleResponsiveSection(
                      renderSection(@, merged.title, heap[ref], st), st)]
        /\ lastOp' = InstanceOp("new", inst, Len(heap[ref]))
        /\ thrown' = None
        /\ dispatched' = << >>
        /\ UNCHANGED <<componentVars, storeVars, page, posted, mainVars>>

\* addCard on the component inst: push on the array config.cards refers to
addCardOf(inst, card) ==
    /\ inst \in DOMAIN instances
    /\ Len(arrays[instances[inst].cards]) < MaxCards
    /\ LET me == instances[inst]
           heap == Store(arrays, me.cards, pushCard(arrays[me.cards], card))
       IN  /\ arrays' = Reachable(heap, instances, {})
           /\ sections' =
                 [sections EXCEPT ![me.container] =
                     renderSection(@, me.title, heap[me.cards], me.state)]
    /\ lastOp' = InstanceOp("addCardOf", inst, card.id)
    /\ thrown' = None
    /\ dispatched' = << >>
    /\ UNCHANGED <<instances, componentVars, storeVars, page, posted, mainVars>>

\* removeCard on the component inst: config.cards is made to refer to the new
\* array filter returns
removeCardOf(inst, id) ==
    /\ inst \in DOMAIN instances
    /\ LET me == instances[inst]
           heap == Store(arrays, FilterArray(inst),
                         removeCardFilter(arrays[me.cards], id))
       IN  /\ instances' = [instances EXCEPT ![inst].cards = FilterArray(inst)]
           /\ arrays' = Reachable(heap, instances', {})
           /\ sections' =
                 [sections EXCEPT ![me.container] =
                     renderSection(@, me.title, heap[FilterArray(inst)], me.state)]
    /\ lastOp' = InstanceOp("removeCardOf", inst, id)
    /\ thrown' = None
    /\ dispatched' = << >>
    /\ UNCHANGED <<componentVars, storeVars, page, posted, mainVars>>

\* the reference getCards() returns: that of the new array [...cards] makes
getCardsOf(inst) == SpreadArray

\* the caller takes getCards() of the component inst, a new array with the
\* same cards, and pushes a card on it; the caller holds the array until the
\* next operation
getCardsAndPush(inst, card) ==
    /\ inst \in DOMAIN instances
    /\ Len(arrays[instances[inst].cards]) < MaxCards
    /\ LET copied == Store(arrays, SpreadArray, arrays[instances[inst].cards])
           result == getCardsOf(inst)
       IN  arrays' = Reachable(Store(copied, result, pushCard(copied[result], card)),
                               instances, {result})
    /\ lastOp' = InstanceOp("getCardsAndPush", inst, card.id)
    /\ thrown' = None
    /\ dispatched' = << >>
    /\ UNCHANGED <<instances, sections, componentVars, storeVars, page, posted,
                   mainVars>>

----------------------------------------------------------------------------
(* FiligreeAnalytics *)

\* what fetch('/api/analytics', ...) comes to: its promise resolves or rejects
FetchInputs == {"resolves", "rejects"}

\* sendToCustomAnalytics: await fetch in a try block whose catch logs the
\* error; the record of the request and of the console.error
sendToCustomAnalytics(name, fetch) ==
    [name |-> name, fetch |-> fetch, logged |-> fetch = "rejects"]

\* FiligreeAnalytics.trackEvent: the gtag call, in no try block, and after it
\* the call of sendToCustomAnalytics, which a throwing gtag cuts off
analyticsPosted(name, gtag, fetch) ==
    IF gtag = "throws" THEN << >> ELSE <<sendToCustomAnalytics(name, fetch)>>

analyticsTrackEvent(name, gtag, fetch) ==
    /\ thrown' = trackEvent(gtag)
    /\ posted' = analyticsPosted(name, gtag, fetch)
    /\ dispatched' = << >>
    /\ UNCHANGED <<componentVars, storeVars, page, instanceVars, mainVars>>

trackCardClick(card, gtag, fetch) ==
    /\ analyticsTrackEvent("card_click", gtag, fetch)
    /\ lastOp' = Op("trackCardClick", card.id, gtag = "throws", {})

trackView(gtag, fetch) ==
    /\ analyticsTrackEvent("component_view", gtag, fetch)
    /\ lastOp' = Op("trackView", 0, gtag = "throws", {})

----------------------------------------------------------------------------
(* main.ts: initializeCards on the page it is loaded into *)

\* most callbacks setTimeout may hold at once
MaxTimers == 3

\* most .dungeon-card elements on the page
MaxPageCards == 2

\* a .dungeon-card element: the text of its .dungeon-card-heading if it has
\* one, its inline style.opacity if set, the click listeners attached to it
DungeonCard(heading, opacity, listeners) ==
    [heading |-> heading, opacity |-> opacity, listeners |-> listeners]

HeadingInputs == {None, Some("Pre-built plugins")}

\* the pages main.ts may be loaded into: up to MaxPageCards cards, each with or
\* without a heading, no inline opacity and no listener yet
PageCardsInputs ==
    UNION { [1..n -> {DungeonCard(h, None, 0) : h \in HeadingInputs}] :
              n \in 0..MaxPageCards }

PageTitleInputs == {None, Some(DefaultTitle)}

InitializedTitle == "NEW: Multiple Integration Options (TypeScript Initialized)"

\* a listener attached twice to the card
addClickListenerTwice(card) == [card EXCEPT !.listeners = @ + 2]

\* card.addEventListener('click', ...) with a new arrow function
addClickListener(card) == [card EXCEPT !.listeners = @ + 1]

\* cards.forEach(card => card.addEventListener(...))
initializeCards(cards) == [i \in 1..Len(cards) |-> addClickListener(cards[i])]

\* the callback setTimeout is handed acts on the last card of the page
lastCardTimer(cards, i) == Len(cards)

\* the card whose opacity the callback of a click on card i sets back: the
\* card the listener closed over
clickTimer(cards, i) == i

\* the browser dispatches DOMContentLoaded, once; the listener registered at
\* line 38 runs initializeCards
DOMContentLoaded ==
    /\ ~loaded
    /\ loaded' = TRUE
    /\ dungeonCards' = initializeCards(dungeonCards)
    /\ titleElement' = IF titleElement = None THEN None ELSE Some(InitializedTitle)
    /\ lastOp' = Op("DOMContentLoaded", Len(dungeonCards), titleElement # None, {})
    /\ thrown' = None
    /\ dispatched' = << >>
    /\ UNCHANGED <<timers, componentVars, storeVars, page, instanceVars, posted>>

\* a click on card i: each listener attached to it runs; with a heading it
\* sets the opacity and hands a callback to setTimeout
CardClick(i) ==
    LET card == dungeonCards[i]
        runs == card.listeners > 0 /\ card.heading # None
    IN  /\ i \in 1..Len(dungeonCards)
        /\ Len(timers) + card.listeners <= MaxTimers
        /\ dungeonCards' =
              IF runs THEN [dungeonCards EXCEPT ![i].opacity = Some("0.9")]
              ELSE dungeonCards
        /\ timers' =
              IF runs
              THEN timers \o [k \in 1..card.listeners |-> clickTimer(dungeonCards, i)]
              ELSE timers
        /\ lastOp' = Op("cardClick", i, runs, {})
        /\ thrown' = None
        /\ dispatched' = << >>
        /\ UNCHANGED <<titleElement, loaded, componentVars, storeVars, page,
                       instanceVars, posted>>

\* the oldest pending callback runs: card.style.opacity = '1'
TimerFires ==
    /\ timers # << >>
    /\ dungeonCards' = [dungeonCards EXCEPT ![Head(timers)].opacity = Some("1")]
    /\ timers' = Tail(timers)
    /\ lastOp' = Op("timer", Head(timers), TRUE, {})
    /\ thrown' = None
    /\ dispatched' = << >>
    /\ UNCHANGED <<titleElement, loaded, componentVars, storeVars, page,
                   instanceVars, posted>>

----------------------------------------------------------------------------
(* The program *)

\* new FiligreeComponent(cfg) on one of the pages, with one of the configs and
\* widths; the history records whether the constructor fell back to the
\* default cards
ComponentStart(pages, configs, widths) ==
    \E pg \in pages, cfg \in configs, w \in widths :
        /\ Constructed(pg, cfg, w)
        /\ lastOp = Op("construct", w, cfg.cards = None, {})

\* new FiligreeState() and new FiligreeAnalytics()
StoreStart ==
    /\ stateSubject = InitialState
    /\ configSubject = InitialConfig
    /\ dispatched = << >>
    /\ posted = << >>

\* the two-section page before any component is made for it, and the array a
\* caller is about to pass as config.cards
InstancesStart ==
    /\ arrays = (CallerArray :> <<CustomPlugin, PreviewImage>>)
    /\ instances = << >>
    /\ sections = [s \in Sections |-> EmptySection]

\* main.ts evaluated on one of the pages: the DOMContentLoaded listener is
\* registered and has not run
MainStart(pageCards, pageTitles) ==
    /\ dungeonCards \in pageCards
    /\ titleElement \in pageTitles
    /\ timers = << >>
    /\ loaded = FALSE

\* the constructor's default argument: config = {}
NoConfig == [title |-> None, cards |-> None, breakpoints |-> None]

Init ==
    /\ ComponentStart({CompletePage}, ConfigInputs, Widths)
    /\ StoreStart
    /\ InstancesStart
    /\ MainStart({<< >>}, {None})

\* the same on a page that may lack the section or its grid
InitAnyPage ==
    /\ ComponentStart(PageInputs, ConfigInputs, Widths)
    /\ StoreStart
    /\ InstancesStart
    /\ MainStart({<< >>}, {None})

\* the two-section page, at a mobile and at a desktop width
InitInstances ==
    /\ ComponentStart({CompletePage}, {NoConfig}, {500, 1200})
    /\ StoreStart
    /\ InstancesStart
    /\ MainStart({<< >>}, {None})

\* main.ts on any of its pages
InitMain ==
    /\ ComponentStart({CompletePage}, {NoConfig}, {1200})
    /\ StoreStart
    /\ InstancesStart
    /\ MainStart(PageCardsInputs, PageTitleInputs)

ComponentNext ==
    \/ \E w \in Widths : WindowResize(w)
    \/ \E onLink \in BOOLEAN, gtag \in GtagInputs : ContainerClick(onLink, gtag)
    \/ \E newConfig \in ConfigInputs : updateConfig(newConfig)
    \/ \E card \in AddCardInputs : addCard(card)
    \/ \E id \in RemoveCardInputs : removeCard(id)
    \/ destroy

StoreNext ==
    \/ \E updates \in UpdateStateInputs : updateState(updates)
    \/ \E cards \in StoreCardsInputs : storeUpdateConfig(cards)
    \/ \E cardId \in SelectCardInputs : selectCard(cardId)

InstanceNext ==
    \/ \E inst \in InstanceNames, share \in BOOLEAN : newFiligreeComponent(inst, share)
    \/ \E inst \in InstanceNames, card \in AddCardInputs : addCardOf(inst, card)
    \/ \E inst \in InstanceNames, id \in InstanceRemoveInputs : removeCardOf(inst, id)
    \/ \E inst \in InstanceNames, card \in AddCardInputs : getCardsAndPush(inst, card)

AnalyticsNext ==
    \/ \E onLink \in BOOLEAN, gtag \in GtagInputs : ContainerClick(onLink, gtag)
    \/ \E card \in AddCardInputs, gtag \in GtagInputs, fetch \in FetchInputs :
          trackCardClick(card, gtag, fetch)
    \/ \E gtag \in GtagInputs, fetch \in FetchInputs : trackView(gtag, fetch)

MainNext ==
    \/ DOMContentLoaded
    \/ \E i \in 1..MaxPageCards : CardClick(i)
    \/ TimerFires

Next == ComponentNext \/ StoreNext \/ InstanceNext \/ AnalyticsNext \/ MainNext

Spec == Init /\ [][Next]_vars

\* the component alone
SpecComponent == Init /\ [][ComponentNext]_vars

\* the state store alone
SpecStore == Init /\ [][StoreNext]_vars

\* the browser events the component listens to, and the state store
EventNext ==
    \/ \E w \in Widths : WindowResize(w)
    \/ \E onLink \in BOOLEAN, gtag \in GtagInputs : ContainerClick(onLink, gtag)
    \/ destroy

SpecEvents == Init /\ [][EventNext \/ StoreNext]_vars

\* the browser events on a page that may lack the section or its grid
PageNext ==
    \/ \E w \in Widths : WindowResize(w)
    \/ \E onLink \in BOOLEAN, gtag \in GtagInputs : ContainerClick(onLink, gtag)

SpecPage == InitAnyPage /\ [][PageNext]_vars

\* components made for the two-section page
SpecInstances == InitInstances /\ [][InstanceNext]_vars

\* link clicks and FiligreeAnalytics calls, with any gtag and fetch
SpecAnalytics == Init /\ [][AnalyticsNext]_vars

\* main.ts
SpecMain == InitMain /\ [][MainNext]_vars

\* altText of an image card as a caller may give it: left out, empty, blank,
\* a text
AltTextInputs == {None, Some(""), Some("   "), Some("Preview")}

\* image cards handed to addCard
ImageCardInputs == {Card(8, "image", None, altText, None, 2, 4) : altText \in AltTextInputs}

\* the component with the default config, at any of the widths
InitRender ==
    /\ ComponentStart({CompletePage}, {NoConfig}, Widths)
    /\ StoreStart
    /\ InstancesStart
    /\ MainStart({<< >>}, {None})

RenderNext ==
    \/ \E w \in Widths : WindowResize(w)
    \/ \E card \in ImageCardInputs : addCard(card)
    \/ \E id \in {8} : removeCard(id)

\* image cards added to and removed from the default cards
SpecRender == InitRender /\ [][RenderNext]_vars

----------------------------------------------------------------------------
(* Properties *)

TrueFlags(st) == {f \in {"isMobile", "isTablet", "isDesktop"} : st[f]}

Flags(st) == <<st.isMobile, st.isTablet, st.isDesktop>>

SelectionEvent(i) == emitEvent("card_selected", [cardId |-> i])

\* C1: selectCard(i) with 0 <= i < card count leaves card i the active card and
\* emits exactly one selection event carrying i; with i outside that range it
\* leaves the selection state unchanged and emits no event.
C1_SelectCardBoundsChecked ==
    [][lastOp'.op = "selectCard" =>
          IF InRange(lastOp'.n, configSubject.cards)
          THEN /\ stateSubject'.activeCard = Some(lastOp'.n)
               /\ dispatched' = <<SelectionEvent(lastOp'.n)>>
          ELSE /\ stateSubject' = stateSubject
               /\ dispatched' = << >>]_vars

\* C2: in every reachable state exactly one of isMobile, isTablet, isDesktop is
\* true; isMobile is the one exactly when the width is below the mobile
\* threshold.
C2_ExactlyOneTierFlag ==
    /\ Cardinality(TrueFlags(state)) = 1
    /\ state.isMobile <=> Lt(innerWidth, config.breakpoints.mobile)

\* C3: activeCard is unset or indexes a card of the current card sequence, in
\* the component and in the state store.
C3_ActiveCardInRange ==
    /\ \A i \in state.activeCard : InRange(i, config.cards)
    /\ \A i \in stateSubject.activeCard : InRange(i, configSubject.cards)

Gt(w, o) == \E b \in o : w > b

\* every threshold is a number, and neither the mobile nor the tablet
\* threshold lies above the desktop threshold
DesktopIsHighest(breakpoints) ==
    \E m \in breakpoints.mobile, t \in breakpoints.tablet, d \in breakpoints.desktop :
        m <= d /\ t <= d

AfterResize == lastOp.op = "resize" /\ lastOp.hit

Content(element) ==
    [className |-> element.className, heading |-> element.heading,
     href |-> element.href, alt |-> element.alt]

\* C5: the grid's children are exactly one element per card of the current
\* config, in the order of the cards.
C5_OneChildPerCard ==
    /\ Len(gridChildren) = Len(config.cards)
    /\ \A i \in 1..Len(config.cards) :
          Content(gridChildren[i]) = Content(createCardElement(config.cards[i], state))

\* a removeCard that took cards out of a list and left some
C5_Witness ==
    /\ lastOp.op = "removeCard"
    /\ lastOp.hit
    /\ Len(gridChildren) > 0
    /\ Len(gridChildren) = Len(config.cards)

C9_DestroyDetaches ==
    [][/\ lastOp'.op = "destroy" =>
               windowListeners' = {} /\ containerListeners' = {}
       /\ lastOp.op = "destroy" /\ lastOp'.op = "resize" =>
               state' = state /\ classList' = classList
       /\ lastOp.op = "destroy" /\ lastOp'.op = "click" => ~lastOp'.hit
       /\ lastOp.op = "destroy" /\ lastOp'.op = "destroy" =>
               UNCHANGED componentVars]_vars

C11_FlagsFollowWidthAndThresholds ==
    Flags(state) = Flags(TierFlags(innerWidth, config.breakpoints))

\* C12: constructing the component on a page without the section, or without
\* the section's grid, raises no error, and later events raise none either and
\* render nothing.
C12_AbsentNodesRaiseNothing ==
    ~Built => thrown = None /\ gridChildren = << >>

\* the section each component is made for: the first one for "a", the second
\* one for "b"
MadeFor(inst) == IF inst = "a" THEN 1 ELSE 2

\* the cards getCards() of a component gives
CardsOf(heap, components, inst) == heap[components[inst].cards]

\* C13: an operation on one of two components made for two different sections
\* (its construction with the first render, addCard, removeCard) changes the
\* children, title and state classes of its own section only, never those of
\* the other component's section.
C13_InstancesIndependent ==
    [][lastOp'.op \in {"new", "addCardOf", "removeCardOf"} =>
          \A s \in Sections \ {MadeFor(lastOp'.inst)} : sections'[s] = sections[s]]_vars

\* C14: addCard and removeCard on one component change neither the array the
\* caller passed as config.cards nor what getCards() of another component gives;
\* a push on an array getCards() returned changes no component's cards.
C14_CardsOwnedExclusively ==
    [][/\ lastOp'.op \in {"addCardOf", "removeCardOf"} =>
             /\ arrays'[CallerArray] = arrays[CallerArray]
             /\ \A other \in DOMAIN instances \ {lastOp'.inst} :
                   CardsOf(arrays', instances', other) = CardsOf(arrays, instances, other)
       /\ lastOp'.op = "getCardsAndPush" =>
             \A inst \in DOMAIN instances :
                 CardsOf(arrays', instances', inst) = CardsOf(arrays, instances, inst)]_vars

BreakpointNames == {"mobile", "tablet", "desktop"}

\* what a config handed to the constructor or to updateConfig supplies is in
\* this.config as given
KeepsSupplied(cfg) ==
    /\ \A t \in cfg.title : config.title = t
    /\ \A c \in cfg.cards : config.cards = c
    /\ \A b \in cfg.breakpoints : \A f \in BreakpointNames :
          \A v \in b[f] : config.breakpoints[f] = Some(v)

\* C15: every option is defaulted one by one: after the construction and after
\* an updateConfig, with a partial breakpoints object too, each threshold the
\* caller left out has a value (its default) and every supplied value is kept.
C15_EveryOptionDefaulted ==
    /\ \A f \in BreakpointNames : config.breakpoints[f] # None
    /\ lastOp.op \in {"construct", "updateConfig"} =>
          \E cfg \in ConfigInputs : KeepsSupplied(cfg)

\* the strings of the inputs that hold white space only
Blank == {"", "   "}

\* String.prototype.trim on the alt texts of the model: none of them has white
\* space around other characters
Trim(s) == IF s \in Blank THEN "" ELSE s

\* C16: every image card element in the grid has an alt text that is not empty
\* once trimmed, whatever the card's altText: left out, empty or blank.
C16_ImageAltNotBlank ==
    \A i \in 1..Len(gridChildren) :
        \A alt \in gridChildren[i].alt : Trim(alt) # ""

\* C17: a failing analytics sink, gtag throwing or the fetch promise
\* rejecting, raises nothing to the caller of the link click or of the card
\* click, and the click leaves the component as a click with a working sink
\* does.
C17_AnalyticsFailureContained ==
    /\ lastOp.op \in {"click", "trackCardClick"} => thrown = None
    /\ lastOp.op = "trackCardClick" => Len(posted) = 1

RenderOps == {"construct", "updateConfig", "addCard", "removeCard"}

\* C18: after a render every card element has its inline grid column and row
\* set exactly when the state it was rendered in has isDesktop, and has
\* neither when that state has isMobile or isTablet.
C18_GridPositionOnDesktopOnly ==
    lastOp.op \in RenderOps =>
        \A i \in 1..Len(gridChildren) :
            /\ gridChildren[i].gridColumn # None <=> state.isDesktop
            /\ gridChildren[i].gridRow # None <=> state.isDesktop
            /\ state.isMobile \/ state.isTablet =>
                  gridChildren[i].gridColumn = None /\ gridChildren[i].gridRow = None

\* C19: initializeCards runs on DOMContentLoaded only; it attaches one click
\* listener to each card of the page and to nothing else; with no title element
\* the title stays absent, with no card nothing is attached, a click on a card
\* without a heading changes no opacity and schedules no timer; nothing throws.
C19_InitializeCardsDegrades ==
    /\ [](/\ thrown = None
          /\ \A i \in 1..Len(dungeonCards) :
                dungeonCards[i].listeners = IF loaded THEN 1 ELSE 0
          /\ ~loaded => titleElement \in PageTitleInputs /\ timers = << >>
          /\ loaded /\ titleElement # None => titleElement = Some(InitializedTitle))
    /\ [][/\ Len(dungeonCards') = Len(dungeonCards)
          /\ titleElement = None => titleElement' = None
          /\ lastOp'.op = "cardClick" /\ dungeonCards[lastOp'.n].heading = None =>
                dungeonCards' = dungeonCards /\ timers' = timers]_vars

\* a click, after DOMContentLoaded, on a card without a heading, on a page
\* without a title element
C19_Witness ==
    /\ loaded
    /\ lastOp.op = "cardClick"
    /\ dungeonCards[lastOp.n].heading = None
    /\ dungeonCards[lastOp.n].listeners = 1
    /\ titleElement = None

\* the opacity a card is shown with: its inline style.opacity, and the initial
\* value 1 of the property while none is set
Shown(card) == IF card.opacity = None THEN "1" ELSE The(card.opacity)

\* C20: a click on a card with a heading sets that card's opacity to '0.9' and
\* leaves the other cards' opacity as it was; whenever no timer is pending,
\* after any clicks, every card is shown with opacity '1'.
C20_ClickFeedbackTransient ==
    /\ [](timers = << >> => \A i \in 1..Len(dungeonCards) : Shown(dungeonCards[i]) = "1")
    /\ [][lastOp'.op = "cardClick" /\ lastOp'.hit =>
             /\ dungeonCards'[lastOp'.n].opacity = Some("0.9")
             /\ \A j \in 1..Len(dungeonCards) \ {lastOp'.n} :
                   dungeonCards'[j].opacity = dungeonCards[j].opacity]_vars

\* the last pending timer has run on a page whose two cards were both clicked
C20_Witness ==
    /\ lastOp.op = "timer"
    /\ timers = << >>
    /\ Len(dungeonCards) = 2
    /\ \A i \in 1..2 : dungeonCards[i].opacity = Some("1")

====
